---- MODULE Spec2Model ----
(***************************************************************************)
(* jar2native: packaging of a JAR/WAR with a minimal JRE.                  *)
(*                                                                         *)
(* Text is modelled as a sequence of tokens.  A token is either one of the *)
(* delimiter characters the code looks at (newline, blank, comma, "@",     *)
(* "[", "]") or an indivisible chunk of other characters (a module name, a *)
(* version).  No token is a prefix of another, so comparing two token      *)
(* sequences position by position with Rank is Python's string order.      *)
(***************************************************************************)
EXTENDS Integers, Sequences, FiniteSets, TLC

(* ------------------------------ bounds -------------------------------- *)

\* Longest list given to --extra-modules.
MaxExtra == 2

(* ------------------------------- text --------------------------------- *)

\* Code-point order of the tokens (str.__lt__ as used by sorted()).
Rank(c) ==
    CASE c = "\n"              -> 0
      [] c = " "               -> 1
      [] c = ","               -> 2
      [] c = "17"              -> 3
      [] c = "@"               -> 4
      [] c = "["               -> 5
      [] c = "]"               -> 6
      [] c = "java.base"       -> 7
      [] c = "java.instrument" -> 8
      [] c = "java.logging"    -> 9
      [] c = "java.sql"        -> 10
      [] c = "lib.jar"         -> 11
      [] c = "->"              -> 12

\* str.isspace() on one token.
IsSpace(c) == c \in {" ", "\n"}

\* s < t for two strings.
RECURSIVE StrLess(_, _)
StrLess(s, t) ==
    IF t = <<>> THEN FALSE
    ELSE IF s = <<>> THEN TRUE
    ELSE IF Head(s) = Head(t) THEN StrLess(Tail(s), Tail(t))
    ELSE Rank(Head(s)) < Rank(Head(t))

\* str.lstrip()
RECURSIVE lstrip(_)
lstrip(s) ==
    IF s # <<>> /\ IsSpace(Head(s)) THEN lstrip(Tail(s)) ELSE s

\* str.rstrip()
RECURSIVE rstrip(_)
rstrip(s) ==
    IF s # <<>> /\ IsSpace(s[Len(s)]) THEN rstrip(SubSeq(s, 1, Len(s) - 1)) ELSE s

\* str.strip()
strip(s) == rstrip(lstrip(s))

\* s.index(c): position of the first c in s, counted from 1; 0 when absent.
index(s, c) ==
    IF \E i \in 1..Len(s) : s[i] = c
    THEN CHOOSE i \in 1..Len(s) : s[i] = c /\ \A j \in 1..(i - 1) : s[j] # c
    ELSE 0

\* s.split(sep): the list of pieces between the separators, never empty.
RECURSIVE split(_, _)
split(s, sep) ==
    LET i == index(s, sep)
    IN  IF i = 0 THEN <<s>>
        ELSE <<SubSeq(s, 1, i - 1)>> \o split(SubSeq(s, i + 1, Len(s)), sep)

\* s.splitlines(): the lines of s, without a trailing empty line.
RECURSIVE splitlines(_)
splitlines(s) ==
    LET i == index(s, "\n")
    IN  IF s = <<>> THEN <<>>
        ELSE IF i = 0 THEN <<s>>
        ELSE <<SubSeq(s, 1, i - 1)>> \o splitlines(SubSeq(s, i + 1, Len(s)))

\* sep.join(list)
RECURSIVE join(_, _)
join(list, sep) ==
    IF list = <<>> THEN <<>>
    ELSE IF Len(list) = 1 THEN list[1]
    ELSE list[1] \o <<sep>> \o join(Tail(list), sep)

\* Insertion of x into an ascending list, after the elements not above it.
RECURSIVE insort(_, _)
insort(list, x) ==
    IF list = <<>> THEN <<x>>
    ELSE IF StrLess(x, Head(list)) THEN <<x>> \o list
    ELSE <<Head(list)>> \o insort(Tail(list), x)

\* sorted(list)
RECURSIVE sorted(_)
sorted(list) ==
    IF list = <<>> THEN <<>> ELSE insort(sorted(Tail(list)), Head(list))

\* The elements of a Python set, in the order iteration happens to yield.
RECURSIVE iterate(_)
iterate(S) ==
    IF S = {} THEN <<>>
    ELSE LET x == CHOOSE y \in S : TRUE IN <<x>> \o iterate(S \ {x})

\* set(list)
Range(list) == {list[i] : i \in 1..Len(list)}

(* --------------------------- ModuleAnalyzer --------------------------- *)

\* ModuleAnalyzer.DEFAULT_MODULES
DEFAULT_MODULES == <<"java.instrument", ",", "java.base", ",", "java.logging">>

\* _parse_list_deps as it would be without the unconditional base module.
_parse_list_deps_without_base(output) ==
    LET lines == splitlines(output)
        found == {SubSeq(lines[k], index(lines[k], "[") + 1, index(lines[k], "]") - 1) :
                    k \in {n \in 1..Len(lines) :
                             index(lines[n], "[") # 0 /\ index(lines[n], "]") # 0}}
    IN  join(sorted(iterate(found)), ",")

\* ModuleAnalyzer._parse_list_deps
_parse_list_deps(output) ==
    LET lines == splitlines(output)
        found == {SubSeq(lines[k], index(lines[k], "[") + 1, index(lines[k], "]") - 1) :
                    k \in {n \in 1..Len(lines) :
                             index(lines[n], "[") # 0 /\ index(lines[n], "]") # 0}}
        modules == {<<"java.base">>} \cup found
    IN  join(sorted(iterate(modules)), ",")

\* ModuleAnalyzer.merge_modules
merge_modules(analyzed, extra) ==
    LET modules == Range(split(analyzed, ",")) \cup Range(extra)
        kept == iterate({m \in modules : strip(m) # <<>>})
    IN  join(sorted([k \in 1..Len(kept) |-> strip(kept[k])]), ",")

(* ----------------------------- JDKManager ----------------------------- *)

\* JDKManager.list_all_modules, applied to the output of java --list-modules
list_all_modules(out) ==
    LET lines == splitlines(out)
        modules == {split(lines[k], "@")[1] :
                      k \in {n \in 1..Len(lines) : strip(lines[n]) # <<>>}}
    IN  join(sorted(iterate(modules)), ",")


\* str.lower() on a file suffix.
lower(sfx) ==
    CASE sfx = ".JAR" -> ".jar"
      [] sfx = ".WAR" -> ".war"
      [] OTHER        -> sfx

(* ------------------------- inputs and outcomes ------------------------ *)

\* Names that may be given to --extra-modules.
ExtraNames == {<<"java.sql">>, <<" ", "java.sql">>, <<" ">>, <<>>}

\* Lists of at most n names.
RECURSIVE ListsUpTo(_, _)
ListsUpTo(S, n) ==
    IF n = 0 THEN {<<>>}
    ELSE LET shorter == ListsUpTo(S, n - 1)
         IN  shorter \cup {Append(l, e) : l \in shorter, e \in S}

\* The parsed command line (main, lines 302-308) and the file it names.
\* The manifest entry of the named file is absent, present without Main-Class
\* ("plain"), or holds the text Main-Class; a missing file has none.
Args ==
    {a \in [jar_file      : [stem : {"app"},
                             suffix : {".jar", ".war", ".WAR", ".txt"},
                             exists : BOOLEAN,
                             manifest : {"absent", "plain", "Main-Class"}],
            jdk_path      : {"", "/custom/jdk"},
            extra_modules : ListsUpTo(ExtraNames, MaxExtra),
            all_modules   : BOOLEAN] :
        ~a.jar_file.exists => a.jar_file.manifest = "absent"}

\* How a subprocess call can end: exit 0, non-zero exit, OSError on launch.
RunOutcomes == {"ok", "nonzero", "cannotrun"}

\* Outcomes of a tool under jdk_dir/bin: none can be launched when the
\* directory holds no JDK.
JdkOutcomes(usable) == IF usable THEN RunOutcomes ELSE {"cannotrun"}

\* Standard output of jdeps --print-module-deps.
PreciseOutputs ==
    {<<>>,
     <<"java.base", "\n">>,
     <<"java.base", ",", "java.logging", "\n">>}

\* Standard output of jdeps --list-deps.
ListOutputs ==
    {<<>>,
     <<" ", "java.logging", "\n">>,
     <<"lib.jar", " ", "->", " ", "[", "java.sql", "]", "\n",
       " ", "java.base", "\n",
       "[", "java.sql", "]", "\n">>,
     <<"[", "java.logging", "]", "\n", "lib.jar", " ", "[", "java.base", "]">>}

\* Standard output of java --list-modules.
ListModulesOutputs ==
    {<<"java.base", "@", "17", "\n", "java.sql", "@", "17", "\n">>,
     <<"java.sql", "@", "17", "\n", "\n", "java.base", "\n",
       "java.logging", "@", "17", "\n", "java.base", "@", "17", "\n">>}

\* Entries that may sit directly inside WEB-INF/lib.
LibEntries ==
    {[stem |-> "a", suffix |-> ".jar"],
     [stem |-> "b", suffix |-> ".jar"],
     [stem |-> "readme", suffix |-> ".txt"]}

\* Directory listings (iterdir yields the entries in arbitrary order).
Listings(S) ==
    {l \in ListsUpTo(S, Cardinality(S)) :
        \A i, j \in 1..Len(l) : i # j => l[i] # l[j]}

\* No extracted tree: the value of war_tree outside a web archive's analysis.
NoTree == [has_classes |-> FALSE, has_lib |-> FALSE, listing |-> <<>>]

\* The stages of a run, in the order package() goes through them.
StageOrder == <<"Validating", "Resolving", "ImageBuilding", "Staging", "Bundling">>

(* ------------------------------- state -------------------------------- *)

VARIABLES
    args,              \* the parsed command line
    jdk_usable,        \* whether jdk_dir/bin holds tools that can be launched
    os_name,           \* os.name of the platform the run is on
    pc,                \* the function the run is about to execute
    state,             \* the run's stage
    error,             \* the exception that ended the run, "" when none
    exit_code,         \* the process exit status, -1 while running
    log,               \* stage entries, tool invocations and the failure, in order
    jdk_dir,           \* JDKManager.jdk_dir
    work_dir,          \* whether the run working directory exists
    mf_tmp,            \* whether the manifest extraction directory exists
    war_tmp,           \* whether the WAR extraction directory exists
    targets,           \* the analysis targets of the current analyze call
    war_tree,          \* the tree _extract_war found, while targets is in use
    resolved,          \* whether analyze has returned
    analyzed_modules,  \* what analyze returned
    final_modules,     \* what merge_modules returned
    jre_dir,           \* whether work_dir/jre exists
    src_dir,           \* the entries of work_dir/src
    artifact           \* whether the bundler has produced the executable

vars == <<args, jdk_usable, os_name, pc, state, error, exit_code, log, jdk_dir, work_dir,
          mf_tmp, war_tmp, targets, war_tree, resolved, analyzed_modules, final_modules,
          jre_dir, src_dir, artifact>>

\* The entries of log: a stage entered, a tool invoked (with how it ended, the
\* standard output the code read from it, and for jlink, the launcher write
\* and the bundler the argument the code passed), the exception that ended
\* the run.
Enter(stage) ==
    [kind |-> "enter", name |-> stage, outcome |-> "", out |-> <<>>, arg |-> <<>>]
CallOut(tool, outcome, out) ==
    [kind |-> "call", name |-> tool, outcome |-> outcome,
     out |-> IF outcome = "ok" THEN out ELSE <<>>, arg |-> <<>>]
Call(tool, outcome) ==
    CallOut(tool, outcome, <<>>)
CallArg(tool, outcome, arg) ==
    [kind |-> "call", name |-> tool, outcome |-> outcome, out |-> <<>>, arg |-> arg]
Failure(stage, err) ==
    [kind |-> "fail", name |-> stage, outcome |-> err, out |-> <<>>, arg |-> <<>>]

Init ==
    /\ args \in Args
    /\ jdk_usable \in BOOLEAN
    /\ os_name \in {"nt", "posix"}
    /\ pc = "__init__"
    /\ state = "Locating"
    /\ error = ""
    /\ exit_code = -1
    /\ log = <<>>
    /\ jdk_dir = ""
    /\ work_dir = FALSE
    /\ mf_tmp = FALSE
    /\ war_tmp = FALSE
    /\ targets = <<>>
    /\ war_tree = NoTree
    /\ resolved = FALSE
    /\ analyzed_modules = <<>>
    /\ final_modules = <<>>
    /\ jre_dir = FALSE
    /\ src_dir = {}
    /\ artifact = FALSE

\* Raise as it would be if the working directory were not scoped to the run.
Raise_keeping_work_dir(err, events) ==
    /\ log' = log \o events \o <<Failure(state, err)>>
    /\ state' = "Failed"
    /\ pc' = "exit"
    /\ error' = err
    /\ exit_code' = 1
    /\ UNCHANGED <<work_dir, jre_dir, src_dir>>
    /\ targets' = <<>>
    /\ war_tree' = NoTree

\* An exception leaves package(): the except clause reports it and re-raises,
\* the with statement deletes the working directory, the process exits non-zero.
\* (An exception of JavaPackager.__init__ leaves main() the same way, before
\* any working directory exists.)
Raise(err, events) ==
    /\ log' = log \o events \o <<Failure(state, err)>>
    /\ state' = "Failed"
    /\ pc' = "exit"
    /\ error' = err
    /\ exit_code' = 1
    /\ work_dir' = FALSE
    /\ jre_dir' = FALSE
    /\ src_dir' = {}
    /\ targets' = <<>>
    /\ war_tree' = NoTree

(* ---------------------------- JavaPackager ---------------------------- *)

\* JavaPackager_init as it would be if the version text were not examined.
JavaPackager_init_accepting_legacy ==
    /\ pc = "__init__"
    /\ \E probe \in RunOutcomes \cup {"legacy"}, which \in BOOLEAN :
         LET detected == IF probe \in {"ok", "legacy"} /\ which THEN "/usr/lib/jvm/jdk" ELSE ""
             dir == IF args.jdk_path # "" THEN args.jdk_path ELSE detected
             events == IF args.jdk_path # "" THEN <<>>
                       ELSE <<Call("java -version", probe)>>
         IN  /\ jdk_dir' = dir
             /\ IF dir = ""
                THEN /\ Raise("ToolchainNotFound", events)
                     /\ UNCHANGED <<args, jdk_usable, os_name, mf_tmp, war_tmp, resolved,
                                    analyzed_modules, final_modules, artifact>>
                ELSE /\ log' = log \o events
                     /\ pc' = "package"
                     /\ UNCHANGED <<args, jdk_usable, os_name, state, error, exit_code,
                                    work_dir, mf_tmp, war_tmp, targets, war_tree, resolved,
                                    analyzed_modules, final_modules, jre_dir,
                                    src_dir, artifact>>

\* JavaPackager_init as it would be if a custom root were probed like a
\* detected one.
JavaPackager_init_probing_custom ==
    /\ pc = "__init__"
    /\ \E probe \in RunOutcomes \cup {"legacy"}, which \in BOOLEAN :
         LET detected == IF probe = "ok" /\ which THEN "/usr/lib/jvm/jdk" ELSE ""
             dir == IF args.jdk_path # "" /\ probe = "ok" THEN args.jdk_path ELSE detected
             events == <<Call("java -version", probe)>>
         IN  /\ jdk_dir' = dir
             /\ IF dir = ""
                THEN /\ Raise("ToolchainNotFound", events)
                     /\ UNCHANGED <<args, jdk_usable, os_name, mf_tmp, war_tmp, resolved,
                                    analyzed_modules, final_modules, artifact>>
                ELSE /\ log' = log \o events
                     /\ pc' = "package"
                     /\ UNCHANGED <<args, jdk_usable, os_name, state, error, exit_code,
                                    work_dir, mf_tmp, war_tmp, targets, war_tree, resolved,
                                    analyzed_modules, final_modules, jre_dir,
                                    src_dir, artifact>>

\* JavaPackager.__init__ with JDKManager.__init__ and _detect_jdk
JavaPackager_init ==
    /\ pc = "__init__"
    /\ \E probe \in RunOutcomes \cup {"legacy"}, which \in BOOLEAN :
         LET detected == IF probe = "ok" /\ which THEN "/usr/lib/jvm/jdk" ELSE ""
             dir == IF args.jdk_path # "" THEN args.jdk_path ELSE detected
             events == IF args.jdk_path # "" THEN <<>>
                       ELSE <<Call("java -version", probe)>>
         IN  /\ jdk_dir' = dir
             /\ IF dir = ""
                THEN /\ Raise("ToolchainNotFound", events)
                     /\ UNCHANGED <<args, jdk_usable, os_name, mf_tmp, war_tmp, resolved,
                                    analyzed_modules, final_modules, artifact>>
                ELSE /\ log' = log \o events
                     /\ pc' = "package"
                     /\ UNCHANGED <<args, jdk_usable, os_name, state, error, exit_code,
                                    work_dir, mf_tmp, war_tmp, targets, war_tree, resolved,
                                    analyzed_modules, final_modules, jre_dir,
                                    src_dir, artifact>>

\* JavaPackager.package, lines 266-272: the working directory is created
package_enter ==
    /\ pc = "package"
    /\ work_dir' = TRUE
    /\ state' = "Validating"
    /\ log' = Append(log, Enter("Validating"))
    /\ pc' = "validate"
    /\ UNCHANGED <<args, jdk_usable, os_name, error, exit_code, jdk_dir, mf_tmp, war_tmp,
                   targets, war_tree, resolved, analyzed_modules, final_modules, jre_dir,
                   src_dir, artifact>>

\* validate as it would be with the entry-point check made before the
\* extension check.
validate_manifest_first ==
    /\ pc = "validate"
    /\ IF ~args.jar_file.exists
       THEN /\ Raise("InputNotFound", <<>>)
            /\ UNCHANGED mf_tmp
       ELSE IF lower(args.jar_file.suffix) # ".war"
       THEN /\ mf_tmp' = TRUE
            /\ pc' = "_has_main_class"
            /\ UNCHANGED <<state, error, exit_code, log, work_dir, targets, war_tree,
                           jre_dir, src_dir>>
       ELSE /\ pc' = "analyze"
            /\ state' = "Resolving"
            /\ log' = Append(log, Enter("Resolving"))
            /\ UNCHANGED <<error, exit_code, work_dir, mf_tmp, targets, war_tree, jre_dir,
                           src_dir>>
    /\ UNCHANGED <<args, jdk_usable, os_name, jdk_dir, war_tmp, resolved, analyzed_modules,
                   final_modules, artifact>>

\* JavaPackager.validate, up to the call of _has_main_class
validate ==
    /\ pc = "validate"
    /\ IF ~args.jar_file.exists
       THEN /\ Raise("InputNotFound", <<>>)
            /\ UNCHANGED mf_tmp
       ELSE IF lower(args.jar_file.suffix) \notin {".jar", ".war"}
       THEN /\ Raise("UnsupportedInputType", <<>>)
            /\ UNCHANGED mf_tmp
       ELSE IF lower(args.jar_file.suffix) = ".jar"
       THEN /\ mf_tmp' = TRUE
            /\ pc' = "_has_main_class"
            /\ UNCHANGED <<state, error, exit_code, log, work_dir, targets, war_tree,
                           jre_dir, src_dir>>
       ELSE /\ pc' = "analyze"
            /\ state' = "Resolving"
            /\ log' = Append(log, Enter("Resolving"))
            /\ UNCHANGED <<error, exit_code, work_dir, mf_tmp, targets, war_tree, jre_dir,
                           src_dir>>
    /\ UNCHANGED <<args, jdk_usable, os_name, jdk_dir, war_tmp, resolved, analyzed_modules,
                   final_modules, artifact>>

\* _has_main_class as it would be if any extracted manifest were accepted.
_has_main_class_accepting_any ==
    /\ pc = "_has_main_class"
    /\ \E run \in JdkOutcomes(jdk_usable) :
         LET events == <<Call("jar xf", run)>>
             manifest == args.jar_file.manifest
         IN  IF run = "cannotrun"
             THEN Raise("ToolError", events)
             ELSE IF run = "ok" /\ manifest # "absent"
             THEN /\ pc' = "analyze"
                  /\ state' = "Resolving"
                  /\ log' = log \o events \o <<Enter("Resolving")>>
                  /\ UNCHANGED <<error, exit_code, work_dir, targets, war_tree, jre_dir, src_dir>>
             ELSE Raise("MissingEntryPoint", events)
    /\ mf_tmp' = FALSE
    /\ UNCHANGED <<args, jdk_usable, os_name, jdk_dir, war_tmp, resolved, analyzed_modules,
                   final_modules, artifact>>

\* JavaPackager._has_main_class and the rest of validate
_has_main_class ==
    /\ pc = "_has_main_class"
    /\ \E run \in JdkOutcomes(jdk_usable) :
         LET events == <<Call("jar xf", run)>>
             manifest == args.jar_file.manifest
         IN  IF run = "cannotrun"
             THEN Raise("ToolError", events)
             ELSE IF run = "ok" /\ manifest = "Main-Class"
             THEN /\ pc' = "analyze"
                  /\ state' = "Resolving"
                  /\ log' = log \o events \o <<Enter("Resolving")>>
                  /\ UNCHANGED <<error, exit_code, work_dir, targets, war_tree, jre_dir, src_dir>>
             ELSE Raise("MissingEntryPoint", events)
    /\ mf_tmp' = FALSE
    /\ UNCHANGED <<args, jdk_usable, os_name, jdk_dir, war_tmp, resolved, analyzed_modules,
                   final_modules, artifact>>

(* --------------------------- ModuleAnalyzer --------------------------- *)

\* ModuleAnalyzer._prepare_targets for a plain archive
ArchiveTarget == [dir |-> "", stem |-> args.jar_file.stem, suffix |-> args.jar_file.suffix]

\* WarTargets as it would be if the library directory were read first.
WarTargets_lib_first(has_classes, has_lib, listing) ==
    (IF has_lib
     THEN LET jars == SelectSeq(listing, LAMBDA f : f.suffix = ".jar")
          IN  [k \in 1..Len(jars) |->
                 [dir |-> "WEB-INF/lib", stem |-> jars[k].stem, suffix |-> jars[k].suffix]]
     ELSE <<>>)
    \o
    (IF has_classes
     THEN <<[dir |-> "WEB-INF", stem |-> "classes", suffix |-> ""]>>
     ELSE <<>>)

\* ModuleAnalyzer._extract_war, lines 80-84: the targets found in the extracted tree
WarTargets(has_classes, has_lib, listing) ==
    (IF has_classes
     THEN <<[dir |-> "WEB-INF", stem |-> "classes", suffix |-> ""]>>
     ELSE <<>>)
    \o
    (IF has_lib
     THEN LET jars == SelectSeq(listing, LAMBDA f : f.suffix = ".jar")
          IN  [k \in 1..Len(jars) |->
                 [dir |-> "WEB-INF/lib", stem |-> jars[k].stem, suffix |-> jars[k].suffix]]
     ELSE <<>>)

\* analyze as it would be if it inspected the archive even with use_all set.
analyze_ignoring_use_all ==
    /\ pc = "analyze"
    /\ IF lower(args.jar_file.suffix) = ".war"
       THEN /\ war_tmp' = TRUE
            /\ pc' = "_extract_war"
            /\ UNCHANGED <<targets, war_tree>>
       ELSE /\ targets' = <<ArchiveTarget>>
            /\ UNCHANGED war_tree
            /\ pc' = "_run_jdeps"
            /\ UNCHANGED war_tmp
    /\ UNCHANGED <<args, jdk_usable, os_name, state, error, exit_code, log, jdk_dir, work_dir,
                   mf_tmp, resolved, analyzed_modules, final_modules, jre_dir,
                   src_dir, artifact>>

\* ModuleAnalyzer.analyze with _prepare_targets, up to the calls of
\* _extract_war and _run_jdeps
analyze ==
    /\ pc = "analyze"
    /\ IF args.all_modules
       THEN \E run \in JdkOutcomes(jdk_usable), out \in ListModulesOutputs :
              LET events == <<CallOut("java --list-modules", run, out)>>
              IN  IF run = "ok"
                  THEN /\ analyzed_modules' = list_all_modules(out)
                       /\ resolved' = TRUE
                       /\ pc' = "merge_modules"
                       /\ log' = log \o events
                       /\ UNCHANGED <<state, error, exit_code, work_dir, war_tmp,
                                      targets, war_tree, jre_dir, src_dir>>
                  ELSE /\ Raise("ToolError", events)
                       /\ UNCHANGED <<war_tmp, resolved, analyzed_modules>>
       ELSE IF lower(args.jar_file.suffix) = ".war"
       THEN /\ war_tmp' = TRUE
            /\ pc' = "_extract_war"
            /\ UNCHANGED <<state, error, exit_code, log, work_dir, targets, war_tree, resolved,
                           analyzed_modules, jre_dir, src_dir>>
       ELSE /\ targets' = <<ArchiveTarget>>
            /\ UNCHANGED war_tree
            /\ pc' = "_run_jdeps"
            /\ UNCHANGED <<state, error, exit_code, log, work_dir, war_tmp, resolved,
                           analyzed_modules, jre_dir, src_dir>>
    /\ UNCHANGED <<args, jdk_usable, os_name, jdk_dir, mf_tmp, final_modules, artifact>>

\* ModuleAnalyzer._extract_war: the body of the with statement and its exit,
\* which deletes the extraction directory
_extract_war ==
    /\ pc = "_extract_war"
    /\ \E unzip \in {"ok", "BadZipFile"}, has_classes \in BOOLEAN, has_lib \in BOOLEAN,
          listing \in Listings(LibEntries) :
         IF unzip = "ok"
         THEN /\ targets' = WarTargets(has_classes, has_lib, listing)
              /\ war_tree' = [has_classes |-> has_classes, has_lib |-> has_lib,
                              listing |-> listing]
              /\ pc' = "_run_jdeps"
              /\ UNCHANGED <<state, error, exit_code, log, work_dir, jre_dir, src_dir>>
         ELSE Raise(unzip, <<>>)
    /\ war_tmp' = FALSE
    /\ UNCHANGED <<args, jdk_usable, os_name, jdk_dir, mf_tmp, resolved, analyzed_modules,
                   final_modules, artifact>>

\* ModuleAnalyzer._run_jdeps, lines 90-96 and the except clauses' entry:
\* the --print-module-deps invocation
_run_jdeps ==
    /\ pc = "_run_jdeps"
    /\ \E run \in JdkOutcomes(jdk_usable), out \in PreciseOutputs :
         /\ log' = Append(log, CallOut("jdeps --print-module-deps", run, out))
         /\ IF run = "ok"
            THEN /\ analyzed_modules' = strip(out)
                 /\ resolved' = TRUE
                 /\ targets' = <<>>
                 /\ war_tree' = NoTree
                 /\ pc' = "merge_modules"
            ELSE IF run = "nonzero"
            THEN /\ pc' = "--list-deps"
                 /\ UNCHANGED <<analyzed_modules, resolved, targets, war_tree>>
            ELSE /\ analyzed_modules' = DEFAULT_MODULES
                 /\ resolved' = TRUE
                 /\ targets' = <<>>
                 /\ war_tree' = NoTree
                 /\ pc' = "merge_modules"
    /\ UNCHANGED <<args, jdk_usable, os_name, state, error, exit_code, jdk_dir, work_dir,
                   mf_tmp, war_tmp, final_modules, jre_dir, src_dir, artifact>>

\* ModuleAnalyzer._run_jdeps, lines 97-103: the --list-deps invocation made
\* inside the handler of CalledProcessError
_run_jdeps_fallback ==
    /\ pc = "--list-deps"
    /\ \E run \in JdkOutcomes(jdk_usable), out \in ListOutputs :
         LET events == <<CallOut("jdeps --list-deps", run, out)>>
         IN  IF run = "ok"
             THEN /\ analyzed_modules' = _parse_list_deps(out)
                  /\ resolved' = TRUE
                  /\ targets' = <<>>
                  /\ war_tree' = NoTree
                  /\ pc' = "merge_modules"
                  /\ log' = log \o events
                  /\ UNCHANGED <<state, error, exit_code, work_dir, jre_dir, src_dir>>
             ELSE /\ Raise("InspectorError", events)
                  /\ UNCHANGED <<analyzed_modules, resolved>>
    /\ UNCHANGED <<args, jdk_usable, os_name, jdk_dir, mf_tmp, war_tmp, final_modules, artifact>>

(* ---------------------------- JavaPackager ---------------------------- *)

\* package_merge as it would be if the extra modules were left out of a
\* run that uses all modules.
package_merge_all_as_listed ==
    /\ pc = "merge_modules"
    /\ final_modules' = IF args.all_modules THEN analyzed_modules
                        ELSE merge_modules(analyzed_modules, args.extra_modules)
    /\ pc' = "build"
    /\ state' = "ImageBuilding"
    /\ log' = Append(log, Enter("ImageBuilding"))
    /\ UNCHANGED <<args, jdk_usable, os_name, error, exit_code, jdk_dir, work_dir, mf_tmp,
                   war_tmp, targets, war_tree, resolved, analyzed_modules, jre_dir, src_dir,
                   artifact>>

\* JavaPackager.package, lines 276-277
package_merge ==
    /\ pc = "merge_modules"
    /\ final_modules' = merge_modules(analyzed_modules, args.extra_modules)
    /\ pc' = "build"
    /\ state' = "ImageBuilding"
    /\ log' = Append(log, Enter("ImageBuilding"))
    /\ UNCHANGED <<args, jdk_usable, os_name, error, exit_code, jdk_dir, work_dir, mf_tmp,
                   war_tmp, targets, war_tree, resolved, analyzed_modules, jre_dir, src_dir,
                   artifact>>

(* ----------------------------- JREBuilder ----------------------------- *)

\* build as it would be if a failed jlink invocation were tried again.
build_retrying ==
    /\ pc = "build"
    /\ \E run \in JdkOutcomes(jdk_usable), again \in JdkOutcomes(jdk_usable) :
         LET events == IF run = "ok" THEN <<CallArg("jlink", run, final_modules)>>
                       ELSE <<CallArg("jlink", run, final_modules), CallArg("jlink", again, final_modules)>>
         IN  IF run = "ok" \/ again = "ok"
             THEN /\ jre_dir' = TRUE
                  /\ pc' = "prepare"
                  /\ state' = "Staging"
                  /\ log' = log \o events \o <<Enter("Staging")>>
                  /\ UNCHANGED <<error, exit_code, work_dir, targets, war_tree, src_dir>>
             ELSE Raise("RuntimeImageBuildError", events)
    /\ UNCHANGED <<args, jdk_usable, os_name, jdk_dir, mf_tmp, war_tmp, resolved,
                   analyzed_modules, final_modules, artifact>>

\* build as it would be if the exit status of jlink were not checked.
build_unchecked ==
    /\ pc = "build"
    /\ \E run \in JdkOutcomes(jdk_usable) :
         /\ jre_dir' = (run = "ok")
         /\ pc' = "prepare"
         /\ state' = "Staging"
         /\ log' = log \o <<CallArg("jlink", run, final_modules), Enter("Staging")>>
    /\ UNCHANGED <<args, jdk_usable, os_name, error, exit_code, jdk_dir, work_dir, mf_tmp,
                   war_tmp, targets, war_tree, resolved, analyzed_modules, final_modules,
                   src_dir, artifact>>

\* JREBuilder.build
build ==
    /\ pc = "build"
    /\ \E run \in JdkOutcomes(jdk_usable) :
         LET events == <<CallArg("jlink", run, final_modules)>>
         IN  IF run = "ok"
             THEN /\ jre_dir' = TRUE
                  /\ pc' = "prepare"
                  /\ state' = "Staging"
                  /\ log' = log \o events \o <<Enter("Staging")>>
                  /\ UNCHANGED <<error, exit_code, work_dir, targets, war_tree, src_dir>>
             ELSE Raise("RuntimeImageBuildError", events)
    /\ UNCHANGED <<args, jdk_usable, os_name, jdk_dir, mf_tmp, war_tmp, resolved,
                   analyzed_modules, final_modules, artifact>>

(* --------------------------- PackageBuilder --------------------------- *)

\* The name of the archive and of the runtime image inside work_dir/src.
ArchiveName == [stem |-> args.jar_file.stem, suffix |-> args.jar_file.suffix]
JreName == [stem |-> "jre", suffix |-> ""]
LauncherName == [stem |-> "launcher", suffix |-> ".py"]

\* LAUNCHER as it would be if it embedded the archive's stem, not its name.
LAUNCHER_stem_only(jre_name, jar_name) ==
    <<jre_name, [stem |-> jar_name.stem, suffix |-> ""]>>

\* PackageBuilder.LAUNCHER.format: the two names the launcher text embeds, the
\* runtime image directory it starts java from and the archive it runs.
LAUNCHER(jre_name, jar_name) == <<jre_name, jar_name>>

\* prepare as it would be if a permission failure were retried like a conflict.
prepare_retrying_denied ==
    /\ pc = "prepare"
    /\ \E copy2 \in {"ok", "OSError"},
          first \in {"ok", "PermissionError", "OSError"},
          removed \in BOOLEAN,
          second \in {"ok", "PermissionError", "OSError"} :
         LET staged == src_dir \cup {ArchiveName}
             tree1 == IF JreName \in staged THEN "FileExistsError" ELSE first
             tree2 == IF removed THEN second ELSE "FileExistsError"
             retried == copy2 = "ok" /\ tree1 \in {"FileExistsError", "PermissionError"}
             events == <<Call("copy2", copy2)>>
                       \o (IF copy2 = "ok" THEN <<Call("copytree", tree1)>> ELSE <<>>)
                       \o (IF retried
                           THEN <<Call("rmtree", IF removed THEN "ok" ELSE "ignored"),
                                  Call("copytree", tree2)>>
                           ELSE <<>>)
             copied == /\ copy2 = "ok"
                       /\ \/ tree1 = "ok"
                          \/ retried /\ tree2 = "ok"
             raised == IF copy2 # "ok" THEN copy2
                       ELSE IF retried THEN tree2
                       ELSE IF tree1 = "PermissionError" THEN "StagingError"
                       ELSE tree1
         IN  IF copied
             THEN /\ src_dir' = staged \cup {JreName, LauncherName}
                  /\ pc' = "build_exe"
                  /\ state' = "Bundling"
                  /\ log' = log \o events
                            \o <<CallArg("write_text", "ok", LAUNCHER(JreName, ArchiveName)),
                                 Enter("Bundling")>>
                  /\ UNCHANGED <<error, exit_code, work_dir, targets, war_tree, jre_dir>>
             ELSE Raise(raised, events)
    /\ UNCHANGED <<args, jdk_usable, os_name, jdk_dir, mf_tmp, war_tmp, resolved,
                   analyzed_modules, final_modules, artifact>>

\* PackageBuilder.__init__ and PackageBuilder.prepare. rmtree is called with
\* ignore_errors=True, so it returns normally whether or not it removed the
\* destination; an exception raised inside the FileExistsError handler is
\* not caught by the PermissionError clause beside it.
prepare ==
    /\ pc = "prepare"
    /\ \E copy2 \in {"ok", "OSError"},
          first \in {"ok", "PermissionError", "OSError"},
          removed \in BOOLEAN,
          second \in {"ok", "PermissionError", "OSError"} :
         LET staged == src_dir \cup {ArchiveName}
             tree1 == IF JreName \in staged THEN "FileExistsError" ELSE first
             tree2 == IF removed THEN second ELSE "FileExistsError"
             retried == copy2 = "ok" /\ tree1 = "FileExistsError"
             events == <<Call("copy2", copy2)>>
                       \o (IF copy2 = "ok" THEN <<Call("copytree", tree1)>> ELSE <<>>)
                       \o (IF retried
                           THEN <<Call("rmtree", IF removed THEN "ok" ELSE "ignored"),
                                  Call("copytree", tree2)>>
                           ELSE <<>>)
             copied == /\ copy2 = "ok"
                       /\ \/ tree1 = "ok"
                          \/ retried /\ tree2 = "ok"
             raised == IF copy2 # "ok" THEN copy2
                       ELSE IF retried THEN tree2
                       ELSE IF tree1 = "PermissionError" THEN "StagingError"
                       ELSE tree1
         IN  IF copied
             THEN /\ src_dir' = staged \cup {JreName, LauncherName}
                  /\ pc' = "build_exe"
                  /\ state' = "Bundling"
                  /\ log' = log \o events
                            \o <<CallArg("write_text", "ok", LAUNCHER(JreName, ArchiveName)),
                                 Enter("Bundling")>>
                  /\ UNCHANGED <<error, exit_code, work_dir, targets, war_tree, jre_dir>>
             ELSE Raise(raised, events)
    /\ UNCHANGED <<args, jdk_usable, os_name, jdk_dir, mf_tmp, war_tmp, resolved,
                   analyzed_modules, final_modules, artifact>>

\* package(), line 288: the name handed to the bundler, as stem and extension
output_name == <<args.jar_file.stem, IF os_name = "nt" THEN ".exe" ELSE "">>

\* build_exe as it would be if the bundler were imported again once installed.
build_exe_importing_again ==
    /\ pc = "build_exe"
    /\ \E import \in {"ok", "ImportError"}, pip \in RunOutcomes, run \in {"ok", "nonzero"} :
         IF import = "ok" \/ pip = "ok"
         THEN LET events == <<Call("import PyInstaller", import)>>
                            \o (IF import = "ok" THEN <<>>
                                ELSE <<Call("pip install", pip)>>)
                            \o <<CallArg("PyInstaller", run, output_name)>>
              IN  IF run = "ok"
                  THEN /\ artifact' = TRUE
                       /\ state' = "Done"
                       /\ pc' = "exit"
                       /\ exit_code' = 0
                       /\ log' = log \o events
                       /\ work_dir' = FALSE
                       /\ jre_dir' = FALSE
                       /\ src_dir' = {}
                       /\ UNCHANGED <<error, targets, war_tree>>
                  ELSE /\ Raise("BundlingError", events)
                       /\ UNCHANGED artifact
         ELSE /\ Raise("BundlingError",
                       <<Call("import PyInstaller", import), Call("pip install", pip)>>)
              /\ UNCHANGED artifact
    /\ UNCHANGED <<args, jdk_usable, os_name, jdk_dir, mf_tmp, war_tmp, resolved,
                   analyzed_modules, final_modules>>

\* PackageBuilder.build_exe and the end of package(). The import statement
\* makes PyInstaller a local name of build_exe: when the import fails and the
\* installation succeeds, line 227 reads a local that was never bound.
build_exe ==
    /\ pc = "build_exe"
    /\ \E import \in {"ok", "ImportError"}, pip \in RunOutcomes, run \in {"ok", "nonzero"} :
         IF import = "ok"
         THEN LET events == <<Call("import PyInstaller", import),
                              CallArg("PyInstaller", run, output_name)>>
              IN  IF run = "ok"
                  THEN /\ artifact' = TRUE
                       /\ state' = "Done"
                       /\ pc' = "exit"
                       /\ exit_code' = 0
                       /\ log' = log \o events
                       /\ work_dir' = FALSE
                       /\ jre_dir' = FALSE
                       /\ src_dir' = {}
                       /\ UNCHANGED <<error, targets, war_tree>>
                  ELSE /\ Raise("BundlingError", events)
                       /\ UNCHANGED artifact
         ELSE /\ Raise(IF pip = "ok" THEN "UnboundLocalError" ELSE "BundlingError",
                       <<Call("import PyInstaller", import), Call("pip install", pip)>>)
              /\ UNCHANGED artifact
    /\ UNCHANGED <<args, jdk_usable, os_name, jdk_dir, mf_tmp, war_tmp, resolved,
                   analyzed_modules, final_modules>>

Next ==
    \/ JavaPackager_init
    \/ package_enter
    \/ validate
    \/ _has_main_class
    \/ analyze
    \/ _extract_war
    \/ _run_jdeps
    \/ _run_jdeps_fallback
    \/ package_merge
    \/ build
    \/ prepare
    \/ build_exe

Spec == Init /\ [][Next]_vars

(* ------------------------ vocabulary of the claims -------------------- *)

\* The names serialized in a comma-separated module list.
Members(list) == Range(split(list, ",")) \ {<<>>}

\* The positions of log at which the given tool was invoked.
Invocations(tool) ==
    {i \in 1..Len(log) : log[i].kind = "call" /\ log[i].name = tool}

\* The stages entered so far, in order.
Entered ==
    LET enters == SelectSeq(log, LAMBDA e : e.kind = "enter")
    IN  [k \in 1..Len(enters) |-> enters[k].name]

\* The tools invoked so far, in order.
Tools ==
    LET calls == SelectSeq(log, LAMBDA e : e.kind = "call")
    IN  [k \in 1..Len(calls) |-> calls[k].name]

\* The run is a web archive run whose modules are inferred by the inspector.
IsWar == lower(args.jar_file.suffix) = ".war"

\* The run is about to invoke the inspector.
AtInspector == pc \in {"_run_jdeps", "--list-deps"}

\* Entries a working directory used before may hold in src/.
StaleEntries == {JreName, LauncherName, [stem |-> "old", suffix |-> ".jar"]}

\* PackageBuilder accepts a working directory that exists already
\* (mkdir(exist_ok=True), lines 173-174 and 178): the state in which package()
\* calls prepare, with src/ holding any stale entries.
InitPrepare ==
    /\ args \in {a \in Args :
                   /\ a.jar_file.exists
                   /\ lower(a.jar_file.suffix) \in {".jar", ".war"}
                   /\ lower(a.jar_file.suffix) = ".jar" => a.jar_file.manifest = "Main-Class"
                   /\ a.extra_modules = <<>>
                   /\ ~a.all_modules}
    /\ jdk_usable = TRUE
    /\ os_name \in {"nt", "posix"}
    /\ pc = "prepare"
    /\ state = "Staging"
    /\ error = ""
    /\ exit_code = -1
    /\ log = <<Enter("Staging")>>
    /\ jdk_dir = IF args.jdk_path # "" THEN args.jdk_path ELSE "/usr/lib/jvm/jdk"
    /\ work_dir = TRUE
    /\ mf_tmp = FALSE
    /\ war_tmp = FALSE
    /\ targets = <<>>
    /\ war_tree = NoTree
    /\ resolved = TRUE
    /\ analyzed_modules = DEFAULT_MODULES
    /\ final_modules = DEFAULT_MODULES
    /\ jre_dir = TRUE
    /\ src_dir \in SUBSET StaleEntries
    /\ artifact = FALSE

NextPrepare ==
    \/ prepare
    \/ build_exe

SpecPrepare == InitPrepare /\ [][NextPrepare]_vars

(* ------------------------------- claims ------------------------------- *)

\* C1: with useAll unset, resolve never fails because of the inspector: the
\* run never fails in Resolving on an inspector invocation, and once listing
\* mode has exited non-zero or could not run, resolve has returned the
\* hard-coded default set.
C1_InspectorNeverFailsResolve ==
    /\ error # "InspectorError"
    /\ \A i \in Invocations("jdeps --list-deps") :
         log[i].outcome # "ok" =>
           /\ resolved
           /\ state # "Failed"
           /\ Members(analyzed_modules) = Members(DEFAULT_MODULES)

\* C2: for a web archive the extraction directory exists at every invocation
\* of the inspector made during resolve, and is deleted once resolve has
\* returned or failed.
C2_ScratchLivesForResolve ==
    /\ (IsWar /\ ~args.all_modules /\ AtInspector) => war_tmp
    /\ (resolved \/ state \in {"Failed", "Done"}) => ~war_tmp

\* C3: whenever resolve returns, the module set it returns is non-empty and
\* contains java.base, and the module set handed to the image builder is
\* never empty.
C3_ResolveNonEmpty ==
    /\ resolved => <<"java.base">> \in Members(analyzed_modules)
    /\ Invocations("jlink") # {} => Members(final_modules) # {}

\* The stage in which a tool is invoked.
ToolStage(tool) ==
    CASE tool = "java -version"                             -> "Locating"
      [] tool = "jar xf"                                    -> "Validating"
      [] tool \in {"java --list-modules", "jdeps --print-module-deps",
                   "jdeps --list-deps"}                     -> "Resolving"
      [] tool = "jlink"                                     -> "ImageBuilding"
      [] tool \in {"copy2", "copytree", "rmtree", "write_text"} -> "Staging"
      [] tool \in {"import PyInstaller", "pip install", "PyInstaller"} -> "Bundling"

\* The stage the run was in when entry i of log was written.
StageAt(i) ==
    LET before == {k \in 1..(i - 1) : log[k].kind = "enter"}
    IN  IF before = {} THEN "Locating"
        ELSE log[CHOOSE k \in before : \A m \in before : m <= k].name

\* C4: the stages are entered in the order Validating, Resolving,
\* ImageBuilding, Staging, Bundling, each at most once; every tool is invoked
\* in its own stage; a failure is the last thing that happens in a run and
\* leaves it in Failed at the stage it was in; the image builder and the
\* bundler are invoked at most once, and their failure ends the run.
C4_StagesInOrder ==
    /\ Entered = SubSeq(StageOrder, 1, Len(Entered))
    /\ \A i \in 1..Len(log) :
         /\ log[i].kind = "call" => ToolStage(log[i].name) = StageAt(i)
         /\ log[i].kind = "fail" => i = Len(log) /\ log[i].name = StageAt(i)
    /\ state = "Failed" <=> (log # <<>> /\ log[Len(log)].kind = "fail")
    /\ state \notin {"Failed", "Done"} => state = StageAt(Len(log) + 1)
    /\ state = "Done" => Entered = StageOrder
    /\ Cardinality(Invocations("jlink")) <= 1
    /\ Cardinality(Invocations("PyInstaller")) <= 1
    /\ \A i \in Invocations("jlink") \cup Invocations("PyInstaller") :
         log[i].outcome # "ok" => i < Len(log) /\ log[i + 1].kind = "fail"

\* C4 witness: the image build failed after Validating, Resolving and
\* ImageBuilding were entered.
C4_Witness ==
    /\ state = "Failed"
    /\ error = "RuntimeImageBuildError"
    /\ Entered = <<"Validating", "Resolving", "ImageBuilding">>

\* C5: after a run has ended, in Done or in Failed, the working directory
\* (with the staging root and the runtime image), the WAR extraction
\* directory and the manifest extraction directory no longer exist.
C5_NoScratchAfterRun ==
    state \in {"Done", "Failed"} =>
        /\ ~work_dir
        /\ ~jre_dir
        /\ src_dir = {}
        /\ ~war_tmp
        /\ ~mf_tmp

\* C5 witness: a run of a web archive failed in Staging, after the working
\* directory held a runtime image and the extraction directory had existed.
C5_Witness ==
    /\ state = "Failed"
    /\ error = "StagingError"
    /\ IsWar
    /\ ~args.all_modules
    /\ ~work_dir

\* The terminal outcomes that are input errors.
InputErrors == {"InputNotFound", "UnsupportedInputType", "MissingEntryPoint"}

\* C6 as stated: in every invocation that ends with an input error no
\* external tool has been invoked, and validation was entered once.
C6_NoToolBeforeInputError ==
    error \in InputErrors => Tools = <<>> /\ Entered = <<"Validating">>

\* C6 as amended: in every invocation that ends with an input error, the
\* version probe has been invoked exactly when no toolchain root was given,
\* the jar tool exactly when the error is the missing entry point of a plain
\* archive, nothing else has been invoked, and validation was entered once.
C6_InputErrorTools ==
    error \in InputErrors =>
        /\ Tools = (IF args.jdk_path = "" THEN <<"java -version">> ELSE <<>>)
                   \o (IF error = "MissingEntryPoint" THEN <<"jar xf">> ELSE <<>>)
        /\ Entered = <<"Validating">>
        /\ error = "InputNotFound" <=> ~args.jar_file.exists
        /\ error = "MissingEntryPoint" => lower(args.jar_file.suffix) = ".jar"
        /\ error = "UnsupportedInputType" =>
             lower(args.jar_file.suffix) \notin {".jar", ".war"}

\* C6 witness: a plain archive without entry point was rejected after the
\* version probe and the jar tool had run.
C6_Witness ==
    /\ error = "MissingEntryPoint"
    /\ Tools = <<"java -version", "jar xf">>

\* The names found between a "[" and the next "]" on a line of the output.
BracketedNames(out) ==
    LET lines == splitlines(out)
        OnLine(l) ==
            {SubSeq(l, p[1] + 1, p[2] - 1) :
                p \in {q \in (1..Len(l)) \X (1..Len(l)) :
                         /\ q[1] < q[2]
                         /\ l[q[1]] = "["
                         /\ l[q[2]] = "]"
                         /\ \A k \in (q[1] + 1)..(q[2] - 1) : l[k] \notin {"[", "]"}}}
    IN  UNION {OnLine(lines[k]) : k \in 1..Len(lines)}

\* C7: with useAll unset, listing mode is invoked only right after precise
\* mode exited non-zero; when precise mode succeeds its output is returned
\* and listing mode is not invoked; when listing mode succeeds the result is
\* the distinct bracketed names of its output plus java.base; when the
\* inspector cannot run the result is exactly the three-module default set.
C7_StrategyOrder ==
    LET P == Invocations("jdeps --print-module-deps")
        L == Invocations("jdeps --list-deps")
        names == split(analyzed_modules, ",")
    IN  ~args.all_modules =>
        /\ Cardinality(P) <= 1
        /\ Cardinality(L) <= 1
        /\ resolved => P # {}
        /\ \A i \in L :
             /\ i > 1
             /\ log[i - 1] = Call("jdeps --print-module-deps", "nonzero")
             /\ log[i].outcome = "ok" =>
                  /\ resolved
                  /\ Cardinality(Range(names)) = Len(names)
                  /\ Range(names) = BracketedNames(log[i].out) \cup {<<"java.base">>}
        /\ \A i \in P :
             /\ log[i].outcome = "ok" =>
                  /\ L = {}
                  /\ resolved
                  /\ analyzed_modules = strip(log[i].out)
             /\ log[i].outcome = "nonzero" => pc = "--list-deps" \/ L # {}
             /\ log[i].outcome = "cannotrun" =>
                  /\ L = {}
                  /\ resolved
                  /\ Len(names) = Cardinality(Range(names))
                  /\ Range(names) = {<<"java.base">>, <<"java.instrument">>,
                                     <<"java.logging">>}

\* C7 witness: listing mode succeeded after precise mode exited non-zero and
\* its bracketed names were returned.
C7_Witness ==
    /\ ~args.all_modules
    /\ resolved
    /\ \E i \in Invocations("jdeps --list-deps") :
         /\ log[i].outcome = "ok"
         /\ <<"java.sql">> \in BracketedNames(log[i].out)
         /\ <<"java.base">> \notin BracketedNames(log[i].out)

\* C8: when useAll is set, resolve returns what list_all_modules makes of the
\* module listing, the inspector is never invoked and no WAR extraction
\* takes place.
C8_UseAllSkipsInspection ==
    args.all_modules =>
        /\ Invocations("jdeps --print-module-deps") = {}
        /\ Invocations("jdeps --list-deps") = {}
        /\ ~war_tmp
        /\ targets = <<>>
        /\ pc \notin {"_extract_war", "_run_jdeps", "--list-deps"}
        /\ resolved =>
             \E i \in Invocations("java --list-modules") :
                /\ log[i].outcome = "ok"
                /\ Invocations("java --list-modules") = {i}
                /\ analyzed_modules = list_all_modules(log[i].out)

\* C8 witness: resolve returned for a web archive with useAll set.
C8_Witness ==
    /\ args.all_modules
    /\ IsWar
    /\ resolved
    /\ <<"java.logging">> \in Members(analyzed_modules)

\* merge_modules has been applied in this run.
Merged == "ImageBuilding" \in Range(Entered)

\* C9: the result of merge is a ModuleSet: it has no empty or whitespace-only
\* entry, its names are in ascending order with no name twice, and its
\* members are exactly the non-blank names of resolved and of extra.
C9_MergeIsModuleSet ==
    LET names == IF final_modules = <<>> THEN <<>> ELSE split(final_modules, ",")
        given == Range(split(analyzed_modules, ",")) \cup Range(args.extra_modules)
    IN  Merged =>
        /\ \A k \in 1..Len(names) : strip(names[k]) # <<>>
        /\ \A j, k \in 1..Len(names) : j < k => StrLess(names[j], names[k])
        /\ Range(names) = {strip(m) : m \in given} \ {<<>>}

\* C10: merge is idempotent and commutative on its extra argument: merging
\* the same extras into the result changes nothing, and any list with the
\* same elements as extra (reordered or repeated) gives the same result.
C10_MergeIdempotentCommutative ==
    Merged =>
        /\ merge_modules(final_modules, args.extra_modules) = final_modules
        /\ \A e2 \in ListsUpTo(ExtraNames, MaxExtra + 1) :
             Range(e2) = Range(args.extra_modules) =>
                merge_modules(analyzed_modules, e2) = final_modules

\* The run has left validation: it is past Validating or has failed in it.
Validated ==
    \/ "Resolving" \in Range(Entered)
    \/ state = "Failed" /\ log[Len(log)].name = "Validating"

\* The named file is an existing plain archive whose manifest lacks Main-Class.
LacksEntryPoint ==
    /\ args.jar_file.exists
    /\ lower(args.jar_file.suffix) = ".jar"
    /\ args.jar_file.manifest # "Main-Class"

\* C11 as stated: an existing plain archive whose manifest lacks Main-Class
\* is rejected with MissingEntryPoint and never enters Resolving; an existing
\* web archive passes validation whatever its manifest, and the jar tool is
\* never run for it.
C11_ValidationOfExistingFile ==
    /\ (Validated /\ LacksEntryPoint) =>
          /\ state = "Failed"
          /\ error = "MissingEntryPoint"
          /\ "Resolving" \notin Range(Entered)
    /\ (Validated /\ args.jar_file.exists /\ IsWar) =>
          /\ Entered[2] = "Resolving"
          /\ Invocations("jar xf") = {}
          /\ ~mf_tmp

\* C11 as amended: such a plain archive never enters Resolving; it is
\* rejected with MissingEntryPoint whenever the jar tool could be launched,
\* and with the launch error of the jar tool otherwise; the web archive half
\* is unchanged.
C11_ValidationUnlessJarToolMissing ==
    /\ (Validated /\ LacksEntryPoint) =>
          /\ state = "Failed"
          /\ "Resolving" \notin Range(Entered)
          /\ Cardinality(Invocations("jar xf")) = 1
          /\ \A i \in Invocations("jar xf") :
               error = IF log[i].outcome = "cannotrun" THEN "ToolError"
                       ELSE "MissingEntryPoint"
    /\ (Validated /\ args.jar_file.exists /\ IsWar) =>
          /\ Entered[2] = "Resolving"
          /\ Invocations("jar xf") = {}
          /\ ~mf_tmp

\* C11 witness: a web archive without Main-Class is being resolved, and (in
\* another run) a plain archive without it was rejected by the manifest check.
C11_Witness ==
    \/ /\ IsWar
       /\ args.jar_file.manifest = "plain"
       /\ state = "ImageBuilding"
    \/ /\ LacksEntryPoint
       /\ error = "MissingEntryPoint"
       /\ \E i \in Invocations("jar xf") : log[i].outcome = "ok"

\* The invocations of the inspector: their failure is the designed
\* degradation of the analysis.
InspectorTools == {"jdeps --print-module-deps", "jdeps --list-deps"}

\* C12: the invocation exits with 0 exactly when it ends in Done, and then
\* the toolchain was located, all five stages were entered, no tool
\* invocation other than the inspector's failed and the artifact exists; it
\* exits non-zero exactly when it ends in Failed, and then exactly one
\* failure is reported; a failed tool invocation other than the inspector's
\* always ends the run in Failed.
C12_SuccessIffAllStages ==
    LET failures == {i \in 1..Len(log) : log[i].kind = "fail"}
        failed == {i \in 1..Len(log) :
                     /\ log[i].kind = "call"
                     /\ log[i].outcome # "ok"
                     /\ log[i].name \notin InspectorTools}
    IN  /\ exit_code = 0 <=> state = "Done"
        /\ exit_code = 1 <=> state = "Failed"
        /\ exit_code = -1 <=> pc # "exit"
        /\ state = "Done" =>
             /\ jdk_dir # ""
             /\ Entered = StageOrder
             /\ failures = {}
             /\ failed = {}
             /\ error = ""
             /\ artifact
        /\ state = "Failed" =>
             /\ Cardinality(failures) = 1
             /\ error # ""
             /\ log[Len(log)] = Failure(StageAt(Len(log)), error)
             /\ ~artifact
        /\ failed # {} => state = "Failed"

\* C12 witness: one run ended in Done although precise mode had failed, and
\* another ended in Failed on a failing bundler.
C12_Witness ==
    \/ /\ state = "Done"
       /\ \E i \in Invocations("jdeps --print-module-deps") : log[i].outcome # "ok"
    \/ /\ state = "Failed"
       /\ error = "BundlingError"
       /\ exit_code = 1

\* C13: after a successful prepare on a fresh working directory the staging
\* directory holds exactly three entries, the archive under its file name,
\* the runtime image under the image directory's name and the launcher, and
\* the two names the launcher text embeds are the names of the first two.
C13_StagingHoldsThree ==
    state = "Bundling" =>
       LET archive == [stem |-> args.jar_file.stem, suffix |-> args.jar_file.suffix]
           image == [stem |-> "jre", suffix |-> ""]
           launcher == [stem |-> "launcher", suffix |-> ".py"]
           writes == Invocations("write_text")
       IN  /\ src_dir = {archive, image, launcher}
           /\ Cardinality(src_dir) = 3
           /\ Cardinality(writes) = 1
           /\ \A i \in writes :
                /\ log[i].outcome = "ok"
                /\ log[i].arg = <<image, archive>>
                /\ Range(log[i].arg) \subseteq src_dir

\* C13 witness: prepare has returned for a web archive with an upper-case
\* suffix, the launcher is written and bundling is about to start.
C13_Witness ==
    /\ state = "Bundling"
    /\ pc = "build_exe"
    /\ args.jar_file.suffix = ".WAR"
    /\ Invocations("write_text") # {}
    /\ Invocations("copytree") # {}

\* C14: when no custom path is supplied and the version probe fails, reports
\* a legacy 1.x version, or no java is found on the search path, location
\* fails with ToolchainNotFound; after such a failure no stage has been
\* entered and the version probe is the only tool invoked.
C14_LocationFailure ==
    /\ (/\ args.jdk_path = ""
        /\ pc # "__init__"
        /\ \/ jdk_dir = ""
           \/ \E i \in Invocations("java -version") : log[i].outcome # "ok")
       => error = "ToolchainNotFound"
    /\ error = "ToolchainNotFound" =>
          /\ state = "Failed"
          /\ exit_code = 1
          /\ args.jdk_path = ""
          /\ Entered = <<>>
          /\ Tools = <<"java -version">>
          /\ ~work_dir
          /\ log[Len(log)] = Failure("Locating", "ToolchainNotFound")

\* C14 witness: location failed on a legacy version report.
C14_Witness ==
    /\ error = "ToolchainNotFound"
    /\ args.jdk_path = ""
    /\ log[1] = Call("java -version", "legacy")
    /\ pc = "exit"

\* The run failed while staging.
FailedStaging == state = "Failed" /\ log[Len(log)].name = "Staging"

\* What C15 says of the attempts, of a permission failure and of the failing
\* cases, whatever it says of the removal.
CopyAttempts ==
    LET attempts == Invocations("copytree")
    IN  /\ Cardinality(attempts) <= 2
        /\ \A j \in attempts :
             (\E i \in attempts : i < j) =>
                /\ log[j - 2] = Call("copytree", "FileExistsError")
                /\ log[j - 1].name = "rmtree"
        /\ \A i \in attempts :
             (log[i].outcome = "PermissionError" /\ \A k \in attempts : i <= k) =>
                /\ attempts = {i}
                /\ Invocations("rmtree") = {}
                /\ error = "StagingError"
                /\ FailedStaging
        /\ FailedStaging =>
             /\ Invocations("write_text") = {}
             /\ LauncherName \notin src_dir
             /\ "Bundling" \notin Range(Entered)
             /\ \A i \in 1..Len(log) :
                  log[i].kind = "call" => ToolStage(log[i].name) # "Bundling"

\* C15 as stated: the runtime image copy is attempted at most twice, a second
\* time only when the first attempt failed because the destination exists and
\* only after that destination has been removed; a permission failure on the
\* first attempt is a StagingError with no second attempt; in every failing
\* case no launcher is written and bundling does not start.
C15_RetryOnlyAfterRemoval ==
    /\ CopyAttempts
    /\ \A j \in Invocations("copytree") :
         (\E i \in Invocations("copytree") : i < j) => log[j - 1] = Call("rmtree", "ok")

\* C15 amended: as C15, except that the second attempt follows an attempt to
\* remove the destination whose errors are ignored; when the destination was
\* not removed the second attempt fails because it still exists, and the run
\* fails.
C15_RetryAfterRemovalAttempt ==
    /\ CopyAttempts
    /\ \A j \in Invocations("copytree") :
         (\E i \in Invocations("copytree") : i < j) =>
            /\ log[j - 1].outcome \in {"ok", "ignored"}
            /\ log[j - 1].outcome = "ignored" =>
                 /\ log[j] = Call("copytree", "FileExistsError")
                 /\ error = "FileExistsError"
                 /\ FailedStaging

\* C15 witness: a stale runtime image was removed and the second copy
\* succeeded, so that bundling has started.
C15_Witness ==
    /\ Cardinality(Invocations("copytree")) = 2
    /\ \E i \in Invocations("rmtree") : log[i].outcome = "ok"
    /\ state = "Bundling"
    /\ Invocations("write_text") # {}

\* C16: when the inspector is about to be invoked for a web archive, the
\* targets are the embedded classes directory, if present, followed by every
\* .jar entry directly inside the embedded library directory, if present, and
\* nothing else, each once; with neither present the list is empty and the
\* inspector is invoked all the same. For a plain archive the only target is
\* the archive path.
C16_AnalysisTargets ==
    LET classes == [dir |-> "WEB-INF", stem |-> "classes", suffix |-> ""]
        jars == IF war_tree.has_lib
                THEN {f \in Range(war_tree.listing) : f.suffix = ".jar"}
                ELSE {}
        libs == {[dir |-> "WEB-INF/lib", stem |-> f.stem, suffix |-> f.suffix] : f \in jars}
    IN  /\ (AtInspector /\ IsWar) =>
             /\ Range(targets) = (IF war_tree.has_classes THEN {classes} ELSE {}) \cup libs
             /\ Len(targets) = Cardinality(Range(targets))
             /\ war_tree.has_classes => targets[1] = classes
             /\ (~war_tree.has_classes /\ ~war_tree.has_lib) => targets = <<>>
        /\ (AtInspector /\ ~IsWar) =>
             targets = <<[dir |-> "", stem |-> args.jar_file.stem,
                          suffix |-> args.jar_file.suffix]>>
        /\ pc = "--list-deps" =>
             log[Len(log)] = Call("jdeps --print-module-deps", "nonzero")
        /\ (resolved /\ ~args.all_modules) =>
             Invocations("jdeps --print-module-deps") # {}
        /\ ~AtInspector => targets = <<>> /\ war_tree = NoTree

\* C16 witness: the inspector has been invoked in precise mode against the
\* empty target list of a web archive with neither sub-path.
C16_Witness ==
    /\ IsWar
    /\ pc = "--list-deps"
    /\ targets = <<>>
    /\ ~war_tree.has_classes
    /\ ~war_tree.has_lib
    /\ Invocations("jdeps --print-module-deps") # {}

\* C17: in every run that reaches ImageBuilding the module list passed to the
\* image builder is merge(resolve result, extraModules), with useAll set or
\* not; in every run that reaches Bundling the name handed to the bundler is
\* the archive's stem, with .exe appended on Windows only; precise-mode
\* output java.base,java.logging with no extras yields the module set
\* {java.base, java.logging}, and the artifact of app.jar is named app.
C17_ModulesAndArtifactName ==
    /\ Merged =>
         /\ final_modules = merge_modules(analyzed_modules, args.extra_modules)
         /\ pc = "build" \/ Invocations("jlink") # {}
    /\ \A i \in Invocations("jlink") :
         log[i].arg = merge_modules(analyzed_modules, args.extra_modules)
    /\ \A i \in Invocations("PyInstaller") :
         /\ log[i].arg[1] = args.jar_file.stem
         /\ log[i].arg[2] = (IF os_name = "nt" THEN ".exe" ELSE "")
         /\ Len(log[i].arg) = 2
    /\ ("Bundling" \in Range(Entered) /\ Invocations("import PyInstaller") = {}) =>
         pc = "build_exe"
    /\ \A i \in Invocations("jdeps --print-module-deps") :
         \A k \in Invocations("jlink") :
           (/\ log[i].outcome = "ok"
            /\ log[i].out = <<"java.base", ",", "java.logging", "\n">>
            /\ args.extra_modules = <<>>) =>
              Members(log[k].arg) = {<<"java.base">>, <<"java.logging">>}
    /\ (artifact /\ os_name = "posix") =>
         \E i \in Invocations("PyInstaller") : log[i].arg = <<"app", "">>

\* C17 witness: a run that uses all modules and names an extra module has
\* produced its artifact on Windows.
C17_Witness ==
    /\ artifact
    /\ args.all_modules
    /\ args.extra_modules # <<>>
    /\ os_name = "nt"
    /\ \E i \in Invocations("jlink") : log[i].arg # analyzed_modules
    /\ \E i \in Invocations("PyInstaller") : log[i].arg = <<"app", ".exe">>

\* C18: if the bundler library cannot be imported when Bundling starts, the
\* installation step follows and the run ends in Failed whether or not the
\* installation succeeds (after a successful one, on the read of the name the
\* failed import left unbound); the bundler's run operation is never invoked,
\* no artifact is produced and the working directory is deleted.
C18_ImportFailureFailsRun ==
    \A i \in Invocations("import PyInstaller") :
       log[i].outcome = "ImportError" =>
          /\ state = "Failed"
          /\ exit_code = 1
          /\ StageAt(i) = "Bundling"
          /\ Len(log) = i + 2
          /\ log[i + 1].kind = "call" /\ log[i + 1].name = "pip install"
          /\ log[i + 2] = Failure("Bundling", error)
          /\ log[i + 1].outcome = "ok" => error = "UnboundLocalError"
          /\ Invocations("PyInstaller") = {}
          /\ ~artifact
          /\ ~work_dir /\ ~jre_dir /\ src_dir = {}

\* C18 witness: the import failed, the installation succeeded, and the run
\* has failed without the bundler having run.
C18_Witness ==
    /\ \E i \in Invocations("import PyInstaller") : log[i].outcome = "ImportError"
    /\ \E i \in Invocations("pip install") : log[i].outcome = "ok"
    /\ state = "Failed"
    /\ error = "UnboundLocalError"

\* The run failed on a tool under the custom root that could not be
\* launched: the unusable root is detected.
RootDetected ==
    /\ args.jdk_path # ""
    /\ ~jdk_usable
    /\ state = "Failed"
    /\ Len(log) >= 2
    /\ log[Len(log) - 1].kind = "call"
    /\ log[Len(log) - 1].outcome = "cannotrun"

\* What C19 says of location under a custom root: it never fails and probes
\* nothing; and a run on an unusable root never completes.
CustomRootLocated ==
    /\ args.jdk_path # "" =>
         /\ error # "ToolchainNotFound"
         /\ Invocations("java -version") = {}
         /\ pc # "__init__" => jdk_dir = args.jdk_path
         /\ ~(state = "Failed" /\ Entered = <<>>)
    /\ (args.jdk_path # "" /\ ~jdk_usable) => state # "Done"

\* C19 as stated: with a non-empty custom root, location never fails and
\* makes no version probe; an unusable root is detected only as a failure of
\* Validating (the jar tool cannot run, plain archive) or of ImageBuilding
\* (web archive, after resolution degraded to the default module set).
C19_CustomRootDetectedLate ==
    /\ CustomRootLocated
    /\ RootDetected =>
         LET stage == log[Len(log)].name
             tool == log[Len(log) - 1].name
         IN  \/ stage = "Validating" /\ ~IsWar /\ tool = "jar xf"
             \/ /\ stage = "ImageBuilding" /\ IsWar /\ tool = "jlink"
                /\ analyzed_modules = DEFAULT_MODULES

\* C19 amended: as C19, with a third place of detection: a web archive run
\* with useAll set fails in Resolving, because the module listing cannot run.
C19_CustomRootDetectedLateOrListing ==
    /\ CustomRootLocated
    /\ RootDetected =>
         LET stage == log[Len(log)].name
             tool == log[Len(log) - 1].name
         IN  \/ stage = "Validating" /\ ~IsWar /\ tool = "jar xf"
             \/ /\ stage = "ImageBuilding" /\ IsWar /\ tool = "jlink"
                /\ ~args.all_modules
                /\ analyzed_modules = DEFAULT_MODULES
             \/ /\ stage = "Resolving" /\ IsWar /\ tool = "java --list-modules"
                /\ args.all_modules

\* C19 witness: a web archive run on an unusable custom root degraded to the
\* default module set and failed in ImageBuilding.
C19_Witness ==
    /\ RootDetected
    /\ IsWar
    /\ log[Len(log)].name = "ImageBuilding"
    /\ analyzed_modules = DEFAULT_MODULES
    /\ Invocations("java -version") = {}
====
